---- MODULE Spec2Model ----
(***************************************************************************)
(* Verification model of windows-helpers-rs.                               *)
(*                                                                         *)
(*   SpecCell : ReentrantRefCell (src/src/cell.rs, same code as            *)
(*              src/src/util.rs): borrow(), borrow_mut() and               *)
(*              borrow_mut_reentrant() with callbacks that mutate, nest,   *)
(*              return and panic.                                          *)
(*   SpecDual : dual_call (src/src/dual_call.rs) with every expectation    *)
(*              and a closure returning any result on either call.         *)
(***************************************************************************)
EXTENDS Integers, Sequences, FiniteSets, TLC

(***************************************************************************)
(* Bounds of the model.                                                    *)
(***************************************************************************)
\* deepest nesting of borrow_mut_reentrant calls explored
MaxDepth == 2
\* number of mutations callbacks perform over one run
MaxMutations == 3
\* number of Ref guards user code keeps alive at once
MaxRefs == 1

(***************************************************************************)
(* Inputs.                                                                 *)
(***************************************************************************)
\* what a callback adds to the value through its &mut T
Deltas == {1, 10, 100}
\* values callbacks return
RetVals == {7, 8}
\* payloads callbacks panic with
UserPayloads == {"boom", "bang"}
\* payloads of the panics of RefCell::borrow() and RefCell::borrow_mut()
BorrowError == "BorrowError"
BorrowMutError == "BorrowMutError"

(***************************************************************************)
(* State.                                                                  *)
(***************************************************************************)
VARIABLES
    num_mut_re_borrows, \* ReentrantRefCell::num_mut_re_borrows
    borrow_flag,        \* the RefCell's borrow state: 0 unused, n > 0 readers, -1 writer
    mem,                \* memory: the RefCell's value lives at CellAddr
    stack,              \* the borrow_mut_reentrant calls in progress, outermost first
    unwinding,          \* payload of a panic unwinding through user code, or NoPanic
    userRefs,           \* Ref guards from borrow() that user code keeps alive
    userRefMut,         \* whether user code keeps a RefMut from borrow_mut() alive
    muts,               \* mutations performed so far (bounded by MaxMutations)
    shadow,             \* history: the value when the outermost call started, plus
                        \* every delta added since, in program order
    last,               \* history: the operation on the cell that completed last
    \* dual_call (src/src/dual_call.rs)
    first_call_expectation, \* the FirstCallExpectation<T> argument
    dc_pc,              \* where dual_call is: "start", "second", "returned"
    calls,              \* history: the arguments the closure was called with
    first_result,       \* what the first call of the closure returned
    second_result,      \* history: what the second call of the closure returned
    dc_result,          \* what dual_call returned
    \* win32_app::msg_loop (src/src/win32_app/msg_loop.rs)
    QUIT_NOW_EXIT_CODE, \* the thread-local Cell<Option<i32>>
    quit_posted,        \* the exit code of the thread's pending PostQuitMessage()
    loop_pc,            \* "idle", "get", "dispatch", "rt_returned", "done"
    entered,            \* the function user code called: "run" or "run_till_thread_msg"
    msg,                \* the local MSG of run_till_thread_msg
    get_msg_retval,     \* the local get_msg_retval of run_till_thread_msg
    retrieved,          \* history: what GetMessageW() handed out, in order
    api_calls,          \* history: the TranslateMessage/DispatchMessageW calls
    rt_start,           \* history: Len(retrieved) when run_till_thread_msg was entered
    rt_result,          \* what run_till_thread_msg returned last
    run_result,         \* what run returned
    \* win32_app::error (src/src/win32_app/error.rs)
    APP_ERROR,          \* the thread-local RefCell<Option<Box<dyn Error>>>
    sets_since_empty,   \* history: errors passed to set_app_error_if_absent since
                        \* the slot was last emptied by clear/take
    err_last,           \* history: the function of error.rs that completed last
    tf_pc,              \* try_then_favor_app_error: "idle", "in_action", "returned"
    tf_result           \* what try_then_favor_app_error returned

cellVars == <<num_mut_re_borrows, borrow_flag, mem, stack, unwinding,
              userRefs, userRefMut, muts, shadow, last>>

dualVars == <<first_call_expectation, dc_pc, calls, first_result, second_result,
              dc_result>>

\* the thread-local of msg_loop.rs and the thread's posted quit request
quitVars == <<QUIT_NOW_EXIT_CODE, quit_posted>>

\* a run of the message loop
loopRunVars == <<loop_pc, entered, msg, get_msg_retval, retrieved, api_calls,
                 rt_start, rt_result, run_result>>

errVars == <<APP_ERROR, sets_since_empty, err_last, tf_pc, tf_result>>

vars == <<cellVars, dualVars, quitVars, loopRunVars, errVars>>

\* what the steps of one component leave alone
otherThanCell == <<dualVars, quitVars, loopRunVars, errVars>>
otherThanDual == <<cellVars, quitVars, loopRunVars, errVars>>
otherThanLoop == <<cellVars, dualVars, errVars>>
otherThanErr == <<cellVars, dualVars, loopRunVars>>

\* where the value of the RefCell is stored; a view not yet handed out points nowhere
CellAddr == "ref_cell.value"
NullAddr == "null"
Addrs == {CellAddr}

NoPanic == "-"

\* std::thread::Result<U> and what a caller receives
NoResult == [kind |-> "none", val |-> 0, payload |-> NoPanic]
Ok(v) == [kind |-> "ok", val |-> v, payload |-> NoPanic]
Err(p) == [kind |-> "panic", val |-> 0, payload |-> p]

\* history record of an operation on the cell: which one ("reentrant", "borrow",
\* "borrow_mut", "drop"), the counter (for borrows: the nesting depth) when it
\* started, whether user code kept a guard alive then, whether its callback made a
\* nested call, what the callback did and what the caller received; forgotten when
\* the next outermost call starts
NoOp == [op |-> "none", entry |-> 0, blocked |-> FALSE, reentered |-> FALSE,
         cb |-> NoResult, out |-> NoResult]
Op(op, entry, out) == [NoOp EXCEPT !.op = op, !.entry = entry, !.out = out]

(***************************************************************************)
(* std::cell::RefCell, as used through ref_cell.                           *)
(***************************************************************************)
\* RefCell::borrow() succeeds unless a writer holds the cell
CanBorrow(flag) == flag >= 0
\* RefCell::borrow_mut() succeeds only when nobody holds the cell
CanBorrowMut(flag) == flag = 0

(***************************************************************************)
(* ReentrantRefCell::borrow_mut_reentrant, piece by piece.                 *)
(***************************************************************************)
\* mutant: a flag instead of a counter
IncrementedAsFlag(n) == IF n = 0 THEN 1 ELSE n
\* line 59: self.num_mut_re_borrows.get() + 1
Incremented(n) == n + 1

\* mutant: no call borrows, all go through as_ptr()
AcquiresBorrowNever(prev) == FALSE
\* line 63: if prev_num_mut_re_borrows == 0
AcquiresBorrow(prev) == prev = 0

\* line 66: &mut *self.ref_cell.as_ptr()
AsPtr == CellAddr

\* line 64: &mut *self.ref_cell.borrow_mut()
RefMutDeref == CellAddr

\* lines 64, 66: every callback in progress is handed a &mut T to the same storage,
\* the nested ones made from the raw pointer while the outer ones are live. That is
\* undefined behaviour as soon as one callback accesses the value between two
\* accesses of another: the compiler assumes nothing else writes behind a &mut T,
\* so a read through the view yields what is in memory, or what this callback knew
\* to be there at its own last access (cached: empty before its first access)
ViewReads(frame) == {mem[frame.view]} \cup frame.cached

\* line 62: panic::catch_unwind(..) turns the closure's outcome into a Result
CatchUnwind(cb) == cb

\* mutant: the borrow is given back at every exit, nested ones too
GuardDroppedAlways(frame) == TRUE
\* mutant: the borrow is not given back when the closure unwinds
GuardDroppedOnReturn(frame) == frame.guard /\ frame.cb.kind = "ok"
\* lines 64, 68: the RefMut temporary of the outermost closure is dropped when the
\* closure is left, by return or by unwinding
GuardDropped(frame) == frame.guard

\* mutant: the counter is only restored on the normal path
RestoredOnReturn(frame, cur) == IF frame.f_retval.kind = "ok" THEN frame.prev ELSE cur
\* line 70: self.num_mut_re_borrows.replace(prev_num_mut_re_borrows)
Restored(frame, cur) == frame.prev

\* mutant: the payload is replaced when the panic is raised again
UnwrapOrResumeReplaced(f_retval) ==
    IF f_retval.kind = "ok" THEN f_retval ELSE Err("reentrant borrow failed")
\* mutant: the return value is lost
UnwrapOrResumeDefault(f_retval) ==
    IF f_retval.kind = "ok" THEN Ok(0) ELSE f_retval
\* line 72: f_retval.unwrap_or_else(|panic_payload| panic::resume_unwind(panic_payload))
UnwrapOrResume(f_retval) == f_retval

(***************************************************************************)
(* Helpers on the call stack.                                              *)
(***************************************************************************)
Depth == Len(stack)
Top == stack[Len(stack)]
SetTop(f) == [stack EXCEPT ![Len(stack)] = f]
Pop == SubSeq(stack, 1, Len(stack) - 1)

\* user code is running: the top level, or the callback of the innermost call
UserCodeRuns == unwinding = NoPanic /\ (IF Depth = 0 THEN TRUE ELSE Top.pc = "in_f")
InCallback == unwinding = NoPanic /\ Depth > 0 /\ Top.pc = "in_f"

(***************************************************************************)
(* ReentrantRefCell::new(0).                                               *)
(***************************************************************************)
CellNew ==
    /\ num_mut_re_borrows = 0
    /\ borrow_flag = 0
    /\ mem = [a \in Addrs |-> 0]
    /\ stack = <<>>
    /\ unwinding = NoPanic
    /\ userRefs = 0
    /\ userRefMut = FALSE
    /\ muts = 0
    /\ shadow = 0
    /\ last = NoOp

(***************************************************************************)
(* borrow() and borrow_mut(), called by user code at the top level or in a *)
(* callback; the guards they return are dropped by user code later.        *)
(***************************************************************************)
Borrow ==
    /\ UNCHANGED otherThanCell
    /\ UserCodeRuns
    /\ IF CanBorrow(borrow_flag)
       THEN /\ userRefs < MaxRefs
            /\ borrow_flag' = borrow_flag + 1
            /\ userRefs' = userRefs + 1
            /\ unwinding' = unwinding
            /\ last' = Op("borrow", Depth, Ok(mem[CellAddr]))
       ELSE /\ unwinding' = BorrowError
            /\ last' = Op("borrow", Depth, Err(BorrowError))
            /\ UNCHANGED <<borrow_flag, userRefs>>
    /\ UNCHANGED <<num_mut_re_borrows, mem, stack, userRefMut, muts, shadow>>

BorrowMut ==
    /\ UNCHANGED otherThanCell
    /\ UserCodeRuns
    /\ IF CanBorrowMut(borrow_flag)
       THEN /\ borrow_flag' = -1
            /\ userRefMut' = TRUE
            /\ unwinding' = unwinding
            /\ last' = Op("borrow_mut", Depth, Ok(mem[CellAddr]))
       ELSE /\ unwinding' = BorrowMutError
            /\ last' = Op("borrow_mut", Depth, Err(BorrowMutError))
            /\ UNCHANGED <<borrow_flag, userRefMut>>
    /\ UNCHANGED <<num_mut_re_borrows, mem, stack, userRefs, muts, shadow>>

DropRef ==
    /\ UNCHANGED otherThanCell
    /\ UserCodeRuns
    /\ userRefs > 0
    /\ userRefs' = userRefs - 1
    /\ borrow_flag' = borrow_flag - 1
    /\ last' = Op("drop", Depth, NoResult)
    /\ UNCHANGED <<num_mut_re_borrows, mem, stack, unwinding, userRefMut, muts, shadow>>

DropRefMut ==
    /\ UNCHANGED otherThanCell
    /\ UserCodeRuns
    /\ userRefMut
    /\ userRefMut' = FALSE
    /\ borrow_flag' = borrow_flag + 1
    /\ last' = Op("drop", Depth, NoResult)
    /\ UNCHANGED <<num_mut_re_borrows, mem, stack, unwinding, userRefs, muts, shadow>>

(***************************************************************************)
(* borrow_mut_reentrant(f).                                                *)
(***************************************************************************)
\* lines 57-59: the counter is replaced by its increment, the old value is kept
Call ==
    /\ UNCHANGED otherThanCell
    /\ UserCodeRuns
    /\ Depth < MaxDepth
    /\ num_mut_re_borrows' = Incremented(num_mut_re_borrows)
    /\ stack' = Append(IF Depth = 0 THEN stack ELSE SetTop([Top EXCEPT !.reentered = TRUE]),
                       [prev |-> num_mut_re_borrows, pc |-> "entered", guard |-> FALSE,
                        view |-> NullAddr, f_retval |-> NoResult,
                        entry |-> num_mut_re_borrows,
                        blocked |-> (userRefs > 0 \/ userRefMut),
                        afterPanic |-> (Depth = 0 /\ last.op = "reentrant"
                                            /\ last.cb.kind = "panic"),
                        reentered |-> FALSE, cached |-> {}, cb |-> NoResult])
    /\ shadow' = IF Depth = 0 THEN mem[CellAddr] ELSE shadow
    /\ last' = IF Depth = 0 THEN NoOp ELSE last
    /\ UNCHANGED <<borrow_flag, mem, unwinding, userRefs, userRefMut, muts>>

\* lines 62-67: inside catch_unwind the outermost call borrows the RefCell mutably
\* (which panics when it is borrowed), a nested call takes the raw pointer; then f
\* is called with the view
EnterClosure ==
    /\ UNCHANGED otherThanCell
    /\ Depth > 0
    /\ Top.pc = "entered"
    /\ IF AcquiresBorrow(Top.prev)
       THEN IF CanBorrowMut(borrow_flag)
            THEN /\ borrow_flag' = -1
                 /\ stack' = SetTop([Top EXCEPT !.pc = "in_f", !.guard = TRUE,
                                                !.view = RefMutDeref])
            ELSE /\ borrow_flag' = borrow_flag
                 /\ stack' = SetTop([Top EXCEPT !.pc = "caught",
                                                !.f_retval = CatchUnwind(Err(BorrowMutError))])
       ELSE /\ borrow_flag' = borrow_flag
            /\ stack' = SetTop([Top EXCEPT !.pc = "in_f", !.view = AsPtr])
    /\ UNCHANGED <<num_mut_re_borrows, mem, unwinding, userRefs, userRefMut, muts,
                   shadow, last>>

\* the callback adds d to the value through its &mut T (*v += d)
Mutate(d) ==
    /\ UNCHANGED otherThanCell
    /\ InCallback
    /\ muts < MaxMutations
    /\ \E old \in ViewReads(Top) :
        /\ mem' = [mem EXCEPT ![Top.view] = old + d]
        /\ stack' = SetTop([Top EXCEPT !.cached = {old + d}])
    /\ shadow' = shadow + d
    /\ muts' = muts + 1
    /\ UNCHANGED <<num_mut_re_borrows, borrow_flag, unwinding, userRefs, userRefMut,
                   last>>

\* the closure of lines 62-68 is left with outcome cb of the callback
LeaveClosure(cb) ==
    /\ stack' = SetTop([Top EXCEPT !.pc = "caught", !.cb = cb,
                                   !.f_retval = CatchUnwind(cb), !.guard = FALSE])
    /\ borrow_flag' = IF GuardDropped(Top) THEN borrow_flag + 1 ELSE borrow_flag

\* the callback returns r
CallbackReturns(r) ==
    /\ UNCHANGED otherThanCell
    /\ InCallback
    /\ LeaveClosure(Ok(r))
    /\ UNCHANGED <<num_mut_re_borrows, mem, unwinding, userRefs, userRefMut, muts,
                   shadow, last>>

\* the callback panics with payload p
CallbackPanics(p) ==
    /\ UNCHANGED otherThanCell
    /\ InCallback
    /\ LeaveClosure(Err(p))
    /\ UNCHANGED <<num_mut_re_borrows, mem, unwinding, userRefs, userRefMut, muts,
                   shadow, last>>

\* a panic raised inside the callback (by a nested call, borrow() or borrow_mut())
\* is not caught by the callback and leaves it
PanicLeavesCallback ==
    /\ UNCHANGED otherThanCell
    /\ unwinding # NoPanic
    /\ Depth > 0
    /\ Top.pc = "in_f"
    /\ LeaveClosure(Err(unwinding))
    /\ unwinding' = NoPanic
    /\ UNCHANGED <<num_mut_re_borrows, mem, userRefs, userRefMut, muts, shadow, last>>

\* user code (the top level, or a callback) catches the panic and goes on
UserCatches ==
    /\ UNCHANGED otherThanCell
    /\ unwinding # NoPanic
    /\ unwinding' = NoPanic
    /\ UNCHANGED <<num_mut_re_borrows, borrow_flag, mem, stack, userRefs, userRefMut,
                   muts, shadow, last>>

\* line 70: the counter is put back
RestoreCounter ==
    /\ UNCHANGED otherThanCell
    /\ Depth > 0
    /\ Top.pc = "caught"
    /\ num_mut_re_borrows' = Restored(Top, num_mut_re_borrows)
    /\ stack' = SetTop([Top EXCEPT !.pc = "restored"])
    /\ UNCHANGED <<borrow_flag, mem, unwinding, userRefs, userRefMut, muts, shadow, last>>

\* line 72: the call returns f's value, or raises the caught panic again
Finish ==
    /\ UNCHANGED otherThanCell
    /\ Depth > 0
    /\ Top.pc = "restored"
    /\ LET out == UnwrapOrResume(Top.f_retval) IN
        /\ last' = [op |-> "reentrant", entry |-> Top.entry, blocked |-> Top.blocked,
                    reentered |-> Top.reentered, cb |-> Top.cb, out |-> out]
        /\ unwinding' = out.payload
    /\ stack' = Pop
    /\ UNCHANGED <<num_mut_re_borrows, borrow_flag, mem, userRefs, userRefMut, muts,
                   shadow>>

(***************************************************************************)
(* dual_call (src/src/dual_call.rs).                                       *)
(***************************************************************************)
\* windows::core::Result<T>: Ok(t), or Err(error) with error.code() an HRESULT
WOk(t) == [kind |-> "Ok", val |-> t]
WErr(hresult) == [kind |-> "Err", val |-> hresult]
NoWResult == [kind |-> "none", val |-> 0]

\* HRESULTs, as the i32 they are
E_UNEXPECTED == -2147418113
E_FAIL == -2147467259
E_POINTER == -2147467261
\* Win32 error codes
ERROR_INSUFFICIENT_BUFFER == 122
ERROR_MORE_DATA == 234

\* line 37: WIN32_ERROR::to_hresult(), HRESULT_FROM_WIN32: 0x8007_0000 | code
to_hresult(win_32_error) ==
    IF win_32_error = 0 THEN 0 ELSE (win_32_error % 65536) - 2147024896

\* the values of T, the Win32 codes and the HRESULTs the model draws from
TValues == {0, 1, 2}
Win32Codes == {ERROR_INSUFFICIENT_BUFFER, ERROR_MORE_DATA}
HResults == {E_FAIL, E_POINTER, E_UNEXPECTED} \cup {to_hresult(w) : w \in Win32Codes}

\* lines 58-67: enum FirstCallExpectation<T>
Expectations ==
    {[kind |-> "Ok", val |-> 0]}
    \cup {[kind |-> "OkValue", val |-> t] : t \in TValues}
    \cup {[kind |-> "Win32Error", val |-> w] : w \in Win32Codes}
    \cup {[kind |-> "HResultError", val |-> h] : h \in HResults}

\* what the closure may return
CallResults == {WOk(t) : t \in TValues} \cup {WErr(h) : h \in HResults}

\* mutant: the closure is first called with false
FirstCallArgFalse == FALSE
\* lines 25, 29, 42: call(true)
FirstCallArg == TRUE
\* lines 26, 30, 45: call(false)
SecondCallArg == FALSE

\* mutant: the Win32 code is compared as it is, without to_hresult()
expected_h_result_raw(exp) == exp.val
\* lines 36-40: the HRESULT that the error of the first call is compared with
expected_h_result(exp) ==
    IF exp.kind = "Win32Error" THEN to_hresult(exp.val) ELSE exp.val

\* lines 23-53: whether dual_call goes on to the second call after the first call
\* returned first
GoesOn(exp, first) ==
    CASE exp.kind = "Ok" -> first.kind = "Ok"
      [] exp.kind = "OkValue" -> first.kind = "Ok" /\ first.val = exp.val
      [] OTHER -> first.kind = "Err" /\ first.val = expected_h_result(exp)

\* mutant: every unmet expectation is reported as E_UNEXPECTED
EarlyReturnUnexpected(exp, first) == WErr(E_UNEXPECTED)
\* lines 23-53: what dual_call returns when it does not go on
EarlyReturn(exp, first) ==
    CASE exp.kind = "Ok" -> first
      [] exp.kind = "OkValue" ->
            IF first.kind = "Err" THEN first ELSE WErr(E_UNEXPECTED)
      [] OTHER ->
            IF first.kind = "Err" THEN first ELSE WErr(E_UNEXPECTED)

(***************************************************************************)
(* win32_app::msg_loop (src/src/win32_app/msg_loop.rs).                    *)
(***************************************************************************)
\* messages GetMessageW() hands out in one behaviour
MaxMsgs == 3

\* Option<i32>
NoCode == [some |-> FALSE, val |-> 0]
SomeCode(exit_code) == [some |-> TRUE, val |-> exit_code]
\* exit codes passed to quit_now() and PostQuitMessage()
ExitCodes == {1, 3, -1}

\* `exit_code as _` at line 60: an i32 cast to the 64-bit usize of WPARAM is
\* sign-extended; a usize is kept as its two 32-bit halves, each written as the
\* i32 with the same bits
as_usize(exit_code) ==
    [hi |-> IF exit_code < 0 THEN -1 ELSE 0, lo |-> exit_code]

NULL == "NULL"
WM_QUIT == "WM_QUIT"
\* MSG::default() at line 47 (the fields msg_loop.rs reads or writes)
MSGDefault ==
    [hwnd |-> NULL, message |-> "WM_NULL", wParam |-> as_usize(0), lParam |-> 0]

\* what GetMessageW() can put into msg, with its return value: WM_QUIT with 0
\* (a posted one can carry a window handle), every other message with nonzero
QueueMsgs ==
    { [retval |-> 0, msg |-> [hwnd |-> NULL, message |-> WM_QUIT,
                              wParam |-> as_usize(0), lParam |-> 0]],
      [retval |-> 0, msg |-> [hwnd |-> "wnd", message |-> WM_QUIT,
                              wParam |-> as_usize(3), lParam |-> 7]],
      [retval |-> 1, msg |-> [hwnd |-> "wnd", message |-> "WM_PAINT",
                              wParam |-> as_usize(0), lParam |-> 0]],
      [retval |-> 1, msg |-> [hwnd |-> NULL, message |-> "WM_TIMER",
                              wParam |-> as_usize(1), lParam |-> 7]] }
\* the WM_QUIT that PostQuitMessage() makes GetMessageW() hand out
PostedQuit ==
    IF quit_posted.some
    THEN {[retval |-> 0, msg |-> [hwnd |-> NULL, message |-> WM_QUIT,
                                  wParam |-> as_usize(quit_posted.val), lParam |-> 0]]}
    ELSE {}
\* GetLastError() codes after a failed GetMessageW()
LastErrors == {5, 1400}

\* Result<MSG> and Result<usize>
NoRtResult == [kind |-> "none", msg |-> MSGDefault, code |-> 0]
RtOk(m) == [kind |-> "Ok", msg |-> m, code |-> 0]
RtErr(hresult) == [kind |-> "Err", msg |-> MSGDefault, code |-> hresult]
NoRunResult == [kind |-> "none", val |-> as_usize(0), code |-> 0]
RunOk(exit_code) == [kind |-> "Ok", val |-> exit_code, code |-> 0]
RunErr(hresult) == [kind |-> "Err", val |-> as_usize(0), code |-> hresult]

\* mutant: the message is rewritten but still treated as GetMessageW() left it
ApplyQuitNowKeepsRetval(exit_code, got) ==
    [retval |-> got.retval,
     msg |-> [hwnd |-> NULL, message |-> WM_QUIT,
              wParam |-> as_usize(exit_code), lParam |-> 0]]
\* lines 56-62: a stored quit-now exit code replaces whatever was retrieved
ApplyQuitNow(exit_code, got) ==
    [retval |-> 0,
     msg |-> [hwnd |-> NULL, message |-> WM_QUIT,
              wParam |-> as_usize(exit_code), lParam |-> 0]]

\* mutant: the loop never hands a dispatched message back
ReturnsAfterDispatchNever(m) == FALSE
\* lines 77-79: a dispatched thread message is returned
ReturnsAfterDispatch(m) == m.hwnd = NULL

\* mutant: run ends at every thread message
RunBreaksAlways(m) == TRUE
\* line 31
RunBreaks(m) == m.message = WM_QUIT

\* lines 72-73
Dispatching(m) ==
    << [fn |-> "TranslateMessage", msg |-> m],
       [fn |-> "DispatchMessageW", msg |-> m] >>

\* run_till_thread_msg breaks out of its loop with res; under run, line 30 is next
ReturnFromRt(res) ==
    /\ rt_result' = res
    /\ loop_pc' = IF entered = "run" THEN "rt_returned" ELSE "done"

\* no message loop has been run, quit_now() has not been called
LoopIdle ==
    /\ QUIT_NOW_EXIT_CODE = NoCode
    /\ quit_posted = NoCode
    /\ loop_pc = "idle"
    /\ entered = "run"
    /\ msg = MSGDefault
    /\ get_msg_retval = 0
    /\ retrieved = <<>>
    /\ api_calls = <<>>
    /\ rt_start = 0
    /\ rt_result = NoRtResult
    /\ run_result = NoRunResult

\* lines 21-30: user code calls run(), which calls run_till_thread_msg()
Run ==
    /\ loop_pc = "idle"
    /\ entered' = "run"
    /\ loop_pc' = "get"
    /\ msg' = MSGDefault
    /\ rt_start' = Len(retrieved)
    /\ UNCHANGED <<get_msg_retval, retrieved, api_calls, rt_result, run_result>>
    /\ UNCHANGED <<quitVars, otherThanLoop>>

\* lines 37-47: user code calls run_till_thread_msg() itself
RunTillThreadMsg ==
    /\ loop_pc = "idle"
    /\ entered' = "run_till_thread_msg"
    /\ loop_pc' = "get"
    /\ msg' = MSGDefault
    /\ rt_start' = Len(retrieved)
    /\ UNCHANGED <<get_msg_retval, retrieved, api_calls, rt_result, run_result>>
    /\ UNCHANGED <<quitVars, otherThanLoop>>

\* lines 51-74: GetMessageW() hands out a message; it is returned as WM_QUIT or
\* passed to TranslateMessage() and DispatchMessageW(), whose window procedure
\* or timer callback then runs
GetMessage(got) ==
    /\ loop_pc = "get"
    /\ Len(retrieved) < MaxMsgs
    /\ LET after == IF QUIT_NOW_EXIT_CODE.some
                    THEN ApplyQuitNow(QUIT_NOW_EXIT_CODE.val, got)
                    ELSE got
       IN  /\ retrieved' = Append(retrieved,
                                  [retval |-> got.retval, msg |-> got.msg,
                                   quit_now |-> QUIT_NOW_EXIT_CODE.some])
           /\ msg' = after.msg
           /\ get_msg_retval' = after.retval
           /\ IF after.retval = 0
              THEN /\ ReturnFromRt(RtOk(after.msg))
                   /\ api_calls' = api_calls
              ELSE /\ loop_pc' = "dispatch"
                   /\ api_calls' = api_calls \o Dispatching(after.msg)
                   /\ rt_result' = rt_result
    /\ quit_posted' = IF got.msg.message = WM_QUIT THEN NoCode ELSE quit_posted
    /\ UNCHANGED <<QUIT_NOW_EXIT_CODE, entered, rt_start, run_result>>
    /\ UNCHANGED otherThanLoop

\* lines 51-54: GetMessageW() fails
GetMessageFails(last_error) ==
    /\ loop_pc = "get"
    /\ get_msg_retval' = -1
    /\ ReturnFromRt(RtErr(to_hresult(last_error)))
    /\ UNCHANGED <<entered, msg, retrieved, api_calls, rt_start, run_result>>
    /\ UNCHANGED <<quitVars, otherThanLoop>>

\* lines 73-80: DispatchMessageW() returns
DispatchReturns ==
    /\ loop_pc = "dispatch"
    /\ IF ReturnsAfterDispatch(msg)
       THEN ReturnFromRt(RtOk(msg))
       ELSE /\ loop_pc' = "get"
            /\ rt_result' = rt_result
    /\ UNCHANGED <<entered, msg, get_msg_retval, retrieved, api_calls, rt_start,
                   run_result>>
    /\ UNCHANGED <<quitVars, otherThanLoop>>

\* lines 30-33: run looks at what run_till_thread_msg returned
RunChecks ==
    /\ loop_pc = "rt_returned"
    /\ IF rt_result.kind = "Err"
       THEN /\ run_result' = RunErr(rt_result.code)
            /\ loop_pc' = "done"
            /\ UNCHANGED <<msg, rt_start>>
       ELSE IF RunBreaks(rt_result.msg)
       THEN /\ run_result' = RunOk(rt_result.msg.wParam)
            /\ loop_pc' = "done"
            /\ UNCHANGED <<msg, rt_start>>
       ELSE /\ run_result' = run_result
            /\ loop_pc' = "get"
            /\ msg' = MSGDefault
            /\ rt_start' = Len(retrieved)
    /\ UNCHANGED <<entered, get_msg_retval, retrieved, api_calls, rt_result>>
    /\ UNCHANGED <<quitVars, otherThanLoop>>

\* where code of the user runs on the thread: before the loop, in hooks called
\* by GetMessageW(), in window procedures and timer callbacks
LoopUserCodeRuns == loop_pc \in {"idle", "get", "dispatch"}

\* lines 85-94
quit_now(exit_code) ==
    /\ LoopUserCodeRuns
    /\ QUIT_NOW_EXIT_CODE' = SomeCode(exit_code)
    /\ quit_posted' = SomeCode(exit_code)
    /\ err_last' = [op |-> "quit_now", app_error |-> [some |-> FALSE, box |-> <<>>],
                    quit_now |-> NoCode,
                    action |-> [kind |-> "Ok", val |-> 0, err |-> "none"],
                    ret |-> [kind |-> "()", val |-> 0, box |-> <<>>]]
    /\ UNCHANGED <<APP_ERROR, sets_since_empty, tf_pc, tf_result>>
    /\ UNCHANGED <<loopRunVars, cellVars, dualVars>>

NextLoop ==
    \/ Run
    \/ RunTillThreadMsg
    \/ \E got \in QueueMsgs \cup PostedQuit : GetMessage(got)
    \/ \E last_error \in LastErrors : GetMessageFails(last_error)
    \/ DispatchReturns
    \/ RunChecks
    \/ \E exit_code \in ExitCodes : quit_now(exit_code)

(***************************************************************************)
(* win32_app::error (src/src/win32_app/error.rs).                          *)
(***************************************************************************)
\* set_app_error_if_absent() calls between two emptyings of the slot
MaxSets == 3

\* the errors E of actions, and the values T they return
AppErrors == {"io", "parse"}
AppValues == {7, 8}
\* Result<T, E> of an action
AOk(t) == [kind |-> "Ok", val |-> t, err |-> "none"]
AErr(error) == [kind |-> "Err", val |-> 0, err |-> error]
ActionResults == {AOk(t) : t \in AppValues} \cup {AErr(error) : error \in AppErrors}

\* error.into(): the E is boxed as a dyn Error
Into(error) == <<"Box<dyn Error>", error>>
\* Option<Box<dyn Error + Send + Sync>>
NoAppError == [some |-> FALSE, box |-> <<>>]
SomeAppError(box) == [some |-> TRUE, box |-> box]

\* what a function of error.rs returns: (), Option<T>, Option<Box<..>> or
\* Result<T, Box<..>>
Unit == [kind |-> "()", val |-> 0, box |-> <<>>]
OptNone == [kind |-> "None", val |-> 0, box |-> <<>>]
OptSome(t) == [kind |-> "Some", val |-> t, box |-> <<>>]
OptSomeBox(box) == [kind |-> "Some", val |-> 0, box |-> box]
ROk(t) == [kind |-> "Ok", val |-> t, box |-> <<>>]
RErr(box) == [kind |-> "Err", val |-> 0, box |-> box]
NoReturn == [kind |-> "none", val |-> 0, box |-> <<>>]

\* the record of a completed call: the function, the thread-locals when it was
\* entered, the result of its action, what it returned
Completed(op, action, ret) ==
    [op |-> op, app_error |-> APP_ERROR, quit_now |-> QUIT_NOW_EXIT_CODE,
     action |-> action, ret |-> ret]
NothingCompleted ==
    [op |-> "none", app_error |-> NoAppError, quit_now |-> NoCode,
     action |-> AOk(0), ret |-> NoReturn]

\* mutant: the error is stored whatever the slot holds
SetIfAbsentOverwrites(app_error, error) == SomeAppError(Into(error))
\* lines 16-20
SetIfAbsent(app_error, error) ==
    IF ~app_error.some THEN SomeAppError(Into(error)) ELSE app_error

\* lines 60-66: what try_or_set_app_error returns, and what it leaves in the slot
TryOption(action) ==
    IF action.kind = "Ok" THEN OptSome(action.val) ELSE OptNone
TrySlot(app_error, action) ==
    IF action.kind = "Ok" THEN app_error ELSE SetIfAbsent(app_error, action.err)
TrySets(action) ==
    IF action.kind = "Ok" THEN sets_since_empty
    ELSE Append(sets_since_empty, action.err)

\* mutant: the quit is requested whatever the action returned
IsNoneAlways(option) == TRUE
\* lines 79 and 93: option.is_none()
IsNone(option) == option.kind = "None"

\* mutant: the result of the action is favored
FavorActionResult(taken, action) ==
    IF action.kind = "Ok" THEN ROk(action.val)
    ELSE RErr(Into(action.err))
\* lines 124-128
FavorAppError(taken, action) ==
    IF taken.some THEN RErr(taken.box)
    ELSE IF action.kind = "Ok" THEN ROk(action.val)
    ELSE RErr(Into(action.err))

\* no function of error.rs has been called
ErrIdle ==
    /\ APP_ERROR = NoAppError
    /\ sets_since_empty = <<>>
    /\ err_last = NothingCompleted
    /\ tf_pc = "idle"
    /\ tf_result = NoReturn

\* lines 10-21
set_app_error_if_absent(error) ==
    /\ Len(sets_since_empty) < MaxSets
    /\ APP_ERROR' = SetIfAbsent(APP_ERROR, error)
    /\ sets_since_empty' = Append(sets_since_empty, error)
    /\ err_last' = Completed("set_app_error_if_absent", AErr(error), Unit)
    /\ UNCHANGED <<tf_pc, tf_result, quitVars, otherThanErr>>

\* lines 23-27
clear_app_error ==
    /\ APP_ERROR' = NoAppError
    /\ sets_since_empty' = <<>>
    /\ err_last' = Completed("clear_app_error", AOk(0), Unit)
    /\ UNCHANGED <<tf_pc, tf_result, quitVars, otherThanErr>>

\* lines 29-33
take_app_error ==
    /\ APP_ERROR' = NoAppError
    /\ sets_since_empty' = <<>>
    /\ err_last' = Completed("take_app_error", AOk(0),
                             IF APP_ERROR.some THEN OptSomeBox(APP_ERROR.box)
                             ELSE OptNone)
    /\ UNCHANGED <<tf_pc, tf_result, quitVars, otherThanErr>>

\* lines 53-67, with the result of the action
try_or_set_app_error(action) ==
    /\ action.kind = "Err" => Len(sets_since_empty) < MaxSets
    /\ APP_ERROR' = TrySlot(APP_ERROR, action)
    /\ sets_since_empty' = TrySets(action)
    /\ err_last' = Completed("try_or_set_app_error", action, TryOption(action))
    /\ UNCHANGED <<tf_pc, tf_result, quitVars, otherThanErr>>

\* lines 69-83
try_or_post_quit(action) ==
    /\ action.kind = "Err" => Len(sets_since_empty) < MaxSets
    /\ APP_ERROR' = TrySlot(APP_ERROR, action)
    /\ sets_since_empty' = TrySets(action)
    /\ quit_posted' = IF IsNone(TryOption(action)) THEN SomeCode(1) ELSE quit_posted
    /\ err_last' = Completed("try_or_post_quit", action, TryOption(action))
    /\ UNCHANGED <<tf_pc, tf_result, QUIT_NOW_EXIT_CODE, otherThanErr>>

\* lines 85-97, with quit_now(1) of msg_loop.rs
try_or_quit_now(action) ==
    /\ action.kind = "Err" => Len(sets_since_empty) < MaxSets
    /\ APP_ERROR' = TrySlot(APP_ERROR, action)
    /\ sets_since_empty' = TrySets(action)
    /\ IF IsNone(TryOption(action))
       THEN /\ QUIT_NOW_EXIT_CODE' = SomeCode(1)
            /\ quit_posted' = SomeCode(1)
       ELSE UNCHANGED quitVars
    /\ err_last' = Completed("try_or_quit_now", action, TryOption(action))
    /\ UNCHANGED <<tf_pc, tf_result, otherThanErr>>

\* lines 112-123: try_then_favor_app_error starts its action
TryThenFavorCalls ==
    /\ tf_pc \in {"idle", "returned"}
    /\ tf_pc' = "in_action"
    /\ tf_result' = NoReturn
    /\ UNCHANGED <<APP_ERROR, sets_since_empty, err_last, quitVars, otherThanErr>>

\* lines 123-128: the action returns, the app error is taken
TryThenFavorReturns(action) ==
    /\ tf_pc = "in_action"
    /\ tf_pc' = "returned"
    /\ APP_ERROR' = NoAppError
    /\ sets_since_empty' = <<>>
    /\ tf_result' = FavorAppError(APP_ERROR, action)
    /\ err_last' = Completed("try_then_favor_app_error", action,
                             FavorAppError(APP_ERROR, action))
    /\ UNCHANGED <<quitVars, otherThanErr>>

NextErr ==
    \/ \E error \in AppErrors : set_app_error_if_absent(error)
    \/ clear_app_error
    \/ take_app_error
    \/ \E action \in ActionResults : try_or_set_app_error(action)
    \/ \E action \in ActionResults : try_or_post_quit(action)
    \/ \E action \in ActionResults : try_or_quit_now(action)
    \/ TryThenFavorCalls
    \/ \E action \in ActionResults : TryThenFavorReturns(action)
    \/ \E exit_code \in ExitCodes : quit_now(exit_code)

\* dual_call has not been called
DualIdle ==
    /\ first_call_expectation = [kind |-> "Ok", val |-> 0]
    /\ dc_pc = "start"
    /\ calls = <<>>
    /\ first_result = NoWResult
    /\ second_result = NoWResult
    /\ dc_result = NoWResult

\* dual_call(first_call_expectation, call) is entered
DualEntered ==
    /\ first_call_expectation \in Expectations
    /\ dc_pc = "start"
    /\ calls = <<>>
    /\ first_result = NoWResult
    /\ second_result = NoWResult
    /\ dc_result = NoWResult

\* the first call of the closure, and the match on what it returned
FirstCall(res) ==
    /\ dc_pc = "start"
    /\ calls' = Append(calls, FirstCallArg)
    /\ first_result' = res
    /\ IF GoesOn(first_call_expectation, res)
       THEN /\ dc_pc' = "second"
            /\ dc_result' = dc_result
       ELSE /\ dc_pc' = "returned"
            /\ dc_result' = EarlyReturn(first_call_expectation, res)
    /\ UNCHANGED <<first_call_expectation, second_result>>
    /\ UNCHANGED otherThanDual

\* the second call of the closure; dual_call returns what it returns
SecondCall(res) ==
    /\ dc_pc = "second"
    /\ calls' = Append(calls, SecondCallArg)
    /\ second_result' = res
    /\ dc_result' = res
    /\ dc_pc' = "returned"
    /\ UNCHANGED <<first_call_expectation, first_result>>
    /\ UNCHANGED otherThanDual

NextDual ==
    \/ \E res \in CallResults : FirstCall(res)
    \/ \E res \in CallResults : SecondCall(res)

InitDual == DualEntered /\ CellNew /\ LoopIdle /\ ErrIdle

InitLoop == LoopIdle /\ CellNew /\ DualIdle /\ ErrIdle

SpecLoop == InitLoop /\ [][NextLoop]_vars

InitErr == ErrIdle /\ LoopIdle /\ CellNew /\ DualIdle

SpecErr == InitErr /\ [][NextErr]_vars

SpecDual == InitDual /\ [][NextDual]_vars

(***************************************************************************)
(* Claims about dual_call, checked under SpecDual.                         *)
(***************************************************************************)
\* whether a first result meets the expectation, as the documentation puts it
Met(exp, first) ==
    \/ exp.kind = "Ok" /\ first.kind = "Ok"
    \/ exp.kind = "OkValue" /\ first = WOk(exp.val)
    \/ exp.kind = "Win32Error" /\ first = WErr(to_hresult(exp.val))
    \/ exp.kind = "HResultError" /\ first = WErr(exp.val)

\* C10: the closure is called at most twice, first with true and then with false,
\* and the second call is only made when the first result met the expectation.
C10_CallOrder ==
    /\ calls \in {<<>>, <<TRUE>>, <<TRUE, FALSE>>}
    /\ dc_pc = "start" <=> calls = <<>>
    /\ dc_pc = "second" => calls = <<TRUE>>
    /\ Len(calls) = 2 => Met(first_call_expectation, first_result)
    /\ dc_pc = "second" => Met(first_call_expectation, first_result)

\* both calls were made after the first one failed with the expected Win32 error
C10_Witness ==
    /\ dc_pc = "returned"
    /\ calls = <<TRUE, FALSE>>
    /\ first_call_expectation = [kind |-> "Win32Error", val |-> ERROR_MORE_DATA]
    /\ first_result = WErr(to_hresult(ERROR_MORE_DATA))
    /\ dc_result = WOk(2)

\* C11: when the first result does not meet the expectation, dual_call returns
\* without a second call: the Err of the first call if it was one, and Err with
\* E_UNEXPECTED if the first call returned Ok.
C11_UnmetExpectation ==
    (dc_pc # "start" /\ ~Met(first_call_expectation, first_result)) =>
        /\ dc_pc = "returned"
        /\ calls = <<TRUE>>
        /\ second_result = NoWResult
        /\ first_result.kind = "Err" => dc_result = first_result
        /\ first_result.kind = "Ok" => dc_result = WErr(E_UNEXPECTED)

\* OkValue(1) was expected, the first call returned Ok(2)
C11_Witness ==
    /\ dc_pc = "returned"
    /\ first_call_expectation = [kind |-> "OkValue", val |-> 1]
    /\ first_result = WOk(2)
    /\ calls = <<TRUE>>
    /\ dc_result = WErr(E_UNEXPECTED)

\* C12: when the first result meets the expectation, the second call is made and
\* dual_call returns what it returns, Ok or Err.
C12_ReturnsSecondResult ==
    /\ (dc_pc # "start" /\ Met(first_call_expectation, first_result)) =>
            (dc_pc = "returned" => (Len(calls) = 2 /\ dc_result = second_result))
    /\ (dc_pc = "returned" /\ Len(calls) = 2) => dc_result = second_result

\* the expected Win32 error came first, then the second call failed with E_FAIL
C12_Witness ==
    /\ dc_pc = "returned"
    /\ first_call_expectation = [kind |-> "Win32Error", val |-> ERROR_INSUFFICIENT_BUFFER]
    /\ first_result = WErr(to_hresult(ERROR_INSUFFICIENT_BUFFER))
    /\ second_result = WErr(E_FAIL)
    /\ dc_result = WErr(E_FAIL)

NextCell ==
    \/ Borrow
    \/ BorrowMut
    \/ DropRef
    \/ DropRefMut
    \/ Call
    \/ EnterClosure
    \/ \E d \in Deltas : Mutate(d)
    \/ \E r \in RetVals : CallbackReturns(r)
    \/ \E p \in UserPayloads : CallbackPanics(p)
    \/ PanicLeavesCallback
    \/ UserCatches
    \/ RestoreCounter
    \/ Finish

InitCell == CellNew /\ DualIdle /\ LoopIdle /\ ErrIdle

SpecCell == InitCell /\ [][NextCell]_vars

(***************************************************************************)
(* Claims about ReentrantRefCell, checked under SpecCell.                  *)
(***************************************************************************)
Frames == {stack[i] : i \in 1..Depth}
\* the borrows on the RefCell that guards in the hands of user code account for
HeldByUser == IF userRefMut THEN -1 ELSE userRefs

\* C1: whenever a borrow_mut_reentrant call is left, by return or by unwinding, at
\* any depth, the counter is what it was before that call started; so it is 0 once
\* the outermost call is left.
C1_CounterRestored ==
    [][Depth' < Depth =>
        /\ num_mut_re_borrows' = Top.entry
        /\ (Depth' = 0 => num_mut_re_borrows' = 0)]_vars

\* a nested call that unwound has just given control back to the outer callback
C1_Witness ==
    /\ Depth = 1
    /\ Top.pc = "in_f"
    /\ unwinding \in UserPayloads
    /\ last.op = "reentrant"
    /\ last.entry = 1
    /\ last.out.kind = "panic"
    /\ num_mut_re_borrows = 1

\* C2: after a callback's panic has left the outermost call the cell is not locked:
\* the counter is 0 and the RefCell is not borrowed; and no later attempt fails
\* unless user code itself keeps a guard alive: an outermost call only fails to get
\* its borrow when it was made with such a guard alive, and borrow() / borrow_mut()
\* at the top level only fail against a guard of user code.
C2_NotLockedAfterPanic ==
    /\ (Depth = 0 /\ last.op = "reentrant" /\ last.cb.kind = "panic") =>
            (num_mut_re_borrows = 0 /\ borrow_flag = 0)
    /\ Depth = 0 => borrow_flag = HeldByUser
    /\ \A f \in Frames :
            (f.entry = 0 /\ f.pc \in {"caught", "restored"} /\ f.cb.kind = "none")
                => f.blocked
    /\ (Depth = 0 /\ last.op = "borrow" /\ last.out.kind = "panic") => userRefMut
    /\ (Depth = 0 /\ last.op = "borrow_mut" /\ last.out.kind = "panic") =>
            (userRefMut \/ userRefs > 0)

\* the callback of a new outermost call runs after a panic left the previous one
C2_Witness ==
    /\ Depth = 1
    /\ Top.pc = "in_f"
    /\ Top.entry = 0
    /\ Top.afterPanic
    /\ borrow_flag = -1

C4_ConflictPanics ==
    /\ []( /\ \A f \in Frames :
                (f.entry = 0 /\ f.blocked) =>
                    /\ f.pc # "in_f"
                    /\ f.cb.kind = "none"
                    /\ (f.pc # "entered" => f.f_retval = Err(BorrowMutError))
           /\ (last.op = "reentrant" /\ last.entry = 0 /\ last.blocked) =>
                (last.cb.kind = "none" /\ last.out = Err(BorrowMutError)) )
    /\ [][(Depth > 0 /\ stack[1].blocked) => mem' = mem]_vars

\* an outermost call made while a RefMut was alive has ended in the borrow panic
C4_Witness ==
    /\ Depth = 0
    /\ userRefMut
    /\ last.op = "reentrant"
    /\ last.entry = 0
    /\ last.blocked
    /\ last.out = Err(BorrowMutError)
    /\ unwinding = BorrowMutError

\* C5: while the callback of the outermost call is in progress no guard of borrow()
\* or borrow_mut() exists, and every borrow() or borrow_mut() made from inside a
\* callback ends, in the same step, in the borrow panic.
C5_BorrowInSessionPanics ==
    /\ (Depth > 0 /\ stack[1].pc = "in_f") => (userRefs = 0 /\ ~userRefMut)
    /\ (last.op = "borrow" /\ last.entry > 0) => last.out = Err(BorrowError)
    /\ (last.op = "borrow_mut" /\ last.entry > 0) => last.out = Err(BorrowMutError)

\* borrow() was tried inside a nested callback and panicked
C5_Witness ==
    /\ Depth = 2
    /\ Top.pc = "in_f"
    /\ last.op = "borrow"
    /\ last.entry = 2
    /\ last.out = Err(BorrowError)
    /\ unwinding = BorrowError

\* C6: when the callback panicked, the call is left by a panic with the payload the
\* callback raised, at every depth.
C6_PanicResumedUnchanged ==
    [][(Depth' < Depth /\ Top.cb.kind = "panic") =>
        /\ last'.out = Top.cb
        /\ unwinding' = Top.cb.payload]_vars

\* a nested call has been left by the panic of its callback
C6_Witness ==
    /\ Depth = 1
    /\ last.op = "reentrant"
    /\ last.entry = 1
    /\ last.cb = Err("bang")
    /\ last.out = Err("bang")
    /\ unwinding = "bang"

C8_CounterIsDepth ==
    /\ (Depth > 0 /\ Top.pc = "in_f") => num_mut_re_borrows = Depth
    /\ Depth = 0 => num_mut_re_borrows = 0

\* a callback at the deepest level explored is executing
C8_Witness ==
    /\ Depth = MaxDepth
    /\ Top.pc = "in_f"
    /\ num_mut_re_borrows = MaxDepth

\* C9: only the outermost call holds a borrow of the RefCell: while a callback is in
\* progress the RefCell is borrowed exclusively, by the outermost call and by no
\* nested one, and that borrow is given back in the step in which the callback of
\* the outermost call is left, never when a nested call is left.
C9_OnlyOutermostBorrows ==
    /\ []( /\ \A i \in 1..Depth : stack[i].guard => (i = 1 /\ stack[i].prev = 0)
           /\ (Depth > 0 /\ stack[1].pc = "in_f") =>
                (stack[1].guard /\ borrow_flag = -1) )
    /\ [][(Depth > 0 /\ stack[1].pc = "in_f") =>
            (borrow_flag' # borrow_flag <=>
                (Depth = 1 /\ Depth' = 1 /\ stack'[1].pc = "caught"))]_vars

\* a nested call has been left and the outermost call still holds the borrow
C9_Witness ==
    /\ Depth = 1
    /\ Top.pc = "in_f"
    /\ Top.guard
    /\ borrow_flag = -1
    /\ last.op = "reentrant"
    /\ last.entry = 1

(***************************************************************************)
(* Claims about the message loop, checked under SpecLoop.                  *)
(***************************************************************************)
\* the WM_QUIT thread message of quit_now(exit_code)
QuitNowMsg(exit_code) ==
    [hwnd |-> NULL, message |-> WM_QUIT, wParam |-> as_usize(exit_code),
     lParam |-> 0]
LastRetrieved == retrieved[Len(retrieved)]

\* C13: once quit_now(c) has stored c, the next message GetMessageW() hands out
\* becomes the WM_QUIT thread message of c (hwnd null, wParam c as a WPARAM,
\* lParam 0), no TranslateMessage/DispatchMessageW call is made for it,
\* run_till_thread_msg returns it, and run then returns Ok(c as usize).
C13_QuitNowNextMessage ==
    [][ /\ (QUIT_NOW_EXIT_CODE.some /\ Len(retrieved') = Len(retrieved) + 1) =>
            /\ msg' = QuitNowMsg(QUIT_NOW_EXIT_CODE.val)
            /\ api_calls' = api_calls
            /\ rt_result' = RtOk(QuitNowMsg(QUIT_NOW_EXIT_CODE.val))
            /\ loop_pc' = IF entered = "run" THEN "rt_returned" ELSE "done"
        /\ (QUIT_NOW_EXIT_CODE.some /\ loop_pc = "rt_returned"
                /\ rt_result.kind = "Ok" /\ rt_result.msg.message = WM_QUIT
                /\ loop_pc' # loop_pc) =>
            /\ LastRetrieved.quit_now
            /\ loop_pc' = "done"
            /\ run_result' = RunOk(as_usize(QUIT_NOW_EXIT_CODE.val))
      ]_vars

\* quit_now(-1) was called, a WM_PAINT for a window came next, run returned
C13_Witness ==
    /\ entered = "run"
    /\ loop_pc = "done"
    /\ QUIT_NOW_EXIT_CODE = SomeCode(-1)
    /\ Len(retrieved) = 1
    /\ retrieved[1].msg.message = "WM_PAINT"
    /\ retrieved[1].quit_now
    /\ api_calls = <<>>
    /\ run_result = RunOk([hi |-> -1, lo |-> -1])

\* C14: run returns Ok(e) only with a WM_QUIT in msg whose wParam is e; it
\* returns Err exactly when GetMessageW() returned -1; it returns in no other
\* case, so a thread message other than WM_QUIT leaves it looping.
C14_RunResult ==
    /\ run_result.kind = "Ok" =>
            /\ Len(retrieved) > 0
            /\ get_msg_retval = 0
            /\ msg.message = WM_QUIT
            /\ run_result.val = msg.wParam
            /\ ~LastRetrieved.quit_now =>
                    (LastRetrieved.retval = 0 /\ LastRetrieved.msg = msg)
    /\ run_result.kind = "Err" =>
            (get_msg_retval = -1 /\ run_result.code = rt_result.code)
    /\ (entered = "run" /\ get_msg_retval = -1) =>
            /\ rt_result.kind = "Err"
            /\ \/ loop_pc = "rt_returned"
               \/ loop_pc = "done" /\ run_result.kind = "Err"
    /\ (entered = "run" /\ loop_pc = "done") => run_result.kind \in {"Ok", "Err"}
    /\ (entered = "run" /\ loop_pc = "done" /\ Len(retrieved) > 0
            /\ LastRetrieved.retval # 0 /\ ~LastRetrieved.quit_now) =>
            run_result.kind = "Err"

\* run went on after a WM_TIMER thread message and returned at the WM_QUIT
C14_Witness ==
    /\ entered = "run"
    /\ loop_pc = "done"
    /\ Len(retrieved) = 2
    /\ retrieved[1].msg.message = "WM_TIMER"
    /\ retrieved[1].msg.hwnd = NULL
    /\ ~retrieved[2].quit_now
    /\ run_result = RunOk(as_usize(3))

\* the TranslateMessage/DispatchMessageW calls for the messages of seq, in order
RECURSIVE CallsFor(_)
CallsFor(seq) ==
    IF seq = <<>> THEN <<>>
    ELSE Dispatching(Head(seq).msg) \o CallsFor(Tail(seq))
\* GetMessageW() returned nonzero for r: r is not a WM_QUIT
NotQuit(r) == r.retval # 0
\* r is a WM_QUIT or a thread message
EndsRt(r) == r.retval = 0 \/ r.msg.hwnd = NULL
\* r was retrieved while a quit-now exit code was stored
Replaced(r) == r.quit_now
NotQuitNotReplaced(r) == NotQuit(r) /\ ~Replaced(r)
\* the messages retrieved by the current (or last) call of run_till_thread_msg
\* before the newest one
EarlierInCall == {i \in 1..Len(retrieved) : rt_start < i /\ i < Len(retrieved)}
RtReturned == loop_pc \in {"rt_returned", "done"} /\ rt_result.kind = "Ok"

\* C15 as stated: every retrieved message other than WM_QUIT has had exactly
\* its TranslateMessage and DispatchMessageW call, in retrieval order;
\* run_till_thread_msg goes on after window messages only and returns the first
\* WM_QUIT or thread message as GetMessageW() handed it out; it returns Err
\* exactly when GetMessageW() returned -1.
C15_AsStated ==
    /\ api_calls = CallsFor(SelectSeq(retrieved, NotQuit))
    /\ \A i \in EarlierInCall : ~EndsRt(retrieved[i])
    /\ (loop_pc = "get" /\ Len(retrieved) > rt_start) => ~EndsRt(LastRetrieved)
    /\ RtReturned =>
            /\ Len(retrieved) > rt_start
            /\ EndsRt(LastRetrieved)
            /\ rt_result.msg = LastRetrieved.msg
    /\ (get_msg_retval = -1) <=> (rt_result.kind = "Err")
    /\ (get_msg_retval = -1) => loop_pc \in {"rt_returned", "done"}

\* C15, amended: the same for the messages retrieved while no quit-now exit code
\* is stored; a message retrieved after quit_now() is neither translated nor
\* dispatched and ends run_till_thread_msg, whatever its hwnd.
C15_WithoutQuitNow ==
    /\ api_calls = CallsFor(SelectSeq(retrieved, NotQuitNotReplaced))
    /\ \A i \in EarlierInCall : ~EndsRt(retrieved[i]) /\ ~Replaced(retrieved[i])
    /\ (loop_pc = "get" /\ Len(retrieved) > rt_start) =>
            (~EndsRt(LastRetrieved) /\ ~Replaced(LastRetrieved))
    /\ RtReturned =>
            /\ Len(retrieved) > rt_start
            /\ EndsRt(LastRetrieved) \/ Replaced(LastRetrieved)
            /\ ~Replaced(LastRetrieved) => rt_result.msg = LastRetrieved.msg
    /\ (get_msg_retval = -1) <=> (rt_result.kind = "Err")
    /\ (get_msg_retval = -1) => loop_pc \in {"rt_returned", "done"}

\* run_till_thread_msg dispatched a WM_PAINT and a WM_TIMER and returned the latter
C15_Witness ==
    /\ entered = "run_till_thread_msg"
    /\ loop_pc = "done"
    /\ ~QUIT_NOW_EXIT_CODE.some
    /\ Len(retrieved) = 2
    /\ retrieved[1].msg.message = "WM_PAINT"
    /\ retrieved[2].msg.message = "WM_TIMER"
    /\ Len(api_calls) = 4
    /\ rt_result = RtOk(retrieved[2].msg)

(***************************************************************************)
(* Claims about the app error, checked under SpecErr.                      *)
(***************************************************************************)
\* C16: the slot holds the first error passed to set_app_error_if_absent since
\* it was last emptied, however many were passed after it; take_app_error
\* returns what the slot held and leaves it empty.
C16_FirstWins ==
    /\ sets_since_empty # <<>> =>
            APP_ERROR = SomeAppError(Into(Head(sets_since_empty)))
    /\ sets_since_empty = <<>> => APP_ERROR = NoAppError
    /\ err_last.op = "take_app_error" =>
            /\ APP_ERROR = NoAppError
            /\ err_last.ret = IF err_last.app_error.some
                              THEN OptSomeBox(err_last.app_error.box)
                              ELSE OptNone

\* "parse" was set, then "io" twice
C16_Witness ==
    /\ sets_since_empty = <<"parse", "io", "io">>
    /\ err_last.op = "set_app_error_if_absent"
    /\ err_last.app_error = SomeAppError(Into("parse"))
    /\ APP_ERROR = SomeAppError(Into("parse"))

\* C17: try_then_favor_app_error returns Err with the app error stored when the
\* action has returned, whatever the action returned; with none stored it
\* returns the Ok of the action unchanged or its Err converted; the slot is
\* empty when it has returned.
C17_FavorsAppError ==
    err_last.op = "try_then_favor_app_error" =>
        /\ tf_pc = "returned" => tf_result = err_last.ret
        /\ APP_ERROR = NoAppError
        /\ err_last.app_error.some => err_last.ret = RErr(err_last.app_error.box)
        /\ (~err_last.app_error.some /\ err_last.action.kind = "Ok") =>
                err_last.ret = ROk(err_last.action.val)
        /\ (~err_last.app_error.some /\ err_last.action.kind = "Err") =>
                err_last.ret = RErr(Into(err_last.action.err))

\* the action returned Ok(7) while the app error "io" was stored
C17_Witness ==
    /\ err_last.op = "try_then_favor_app_error"
    /\ err_last.action = AOk(7)
    /\ err_last.app_error = SomeAppError(Into("io"))
    /\ tf_result = RErr(Into("io"))
    /\ APP_ERROR = NoAppError

\* C18: try_or_quit_now with an Err action stores the error unless one is
\* stored, does what quit_now(1) does and returns None; with an Ok(t) action it
\* returns Some(t) and leaves the slot and the quit-now exit code as they were.
C18_TryOrQuitNow ==
    err_last.op = "try_or_quit_now" =>
        /\ err_last.action.kind = "Err" =>
                /\ APP_ERROR = IF err_last.app_error.some THEN err_last.app_error
                               ELSE SomeAppError(Into(err_last.action.err))
                /\ QUIT_NOW_EXIT_CODE = SomeCode(1)
                /\ quit_posted = SomeCode(1)
                /\ err_last.ret = OptNone
        /\ err_last.action.kind = "Ok" =>
                /\ err_last.ret = OptSome(err_last.action.val)
                /\ APP_ERROR = err_last.app_error
                /\ QUIT_NOW_EXIT_CODE = err_last.quit_now

\* the action failed with "parse" while "io" was stored and quit_now(3) had been called
C18_Witness ==
    /\ err_last.op = "try_or_quit_now"
    /\ err_last.action = AErr("parse")
    /\ err_last.app_error = SomeAppError(Into("io"))
    /\ err_last.quit_now = SomeCode(3)
    /\ APP_ERROR = SomeAppError(Into("io"))
    /\ QUIT_NOW_EXIT_CODE = SomeCode(1)

====
